---- MODULE Spec2Model ----
(***************************************************************************)
(* Model of react-plaid-link's web3 support:                               *)
(*   - src/web3/loadScript.ts : the process-wide script registry and the   *)
(*     loader closure that injects a <script> element;                     *)
(*   - src/web3/web3-react.ts : the PlaidWalletOnboard connector           *)
(*     (activate / connectEagerly / watchAsset / provider wiring);         *)
(*   - useScript (the React hook) appears as a "slot": a direct caller of  *)
(*     loadScript that keeps the returned snapshot and deferred trigger.   *)
(* Every promise reaction and every DOM event handler is one action.       *)
(***************************************************************************)
EXTENDS Integers, Sequences, FiniteSets, TLC

\* ------------------------------------------------------------------ bounds
\* direct loadScript(...) calls made by hook users (one slot per call)
MaxSlots == 2
\* invocations of one deferred trigger
MaxTrig == 2
\* connect() / connectEagerly() calls over all adapter instances
MaxCalls == 2
\* events emitted by providers
MaxEvents == 1

\* --------------------------------------------------------------- constants
PLAID_LINK_STABLE_URL == "https://cdn.plaid.com/link/v2/stable/link-initialize.js"
OtherUrl == "https://example.test/other.js"
Urls == {PLAID_LINK_STABLE_URL, OtherUrl}
\* params.src may be null
NoSrc == "null"

\* the model covers the browser build: window and window.document exist
isBrowser == TRUE

Adapters == {1, 2}
Slots == 1..MaxSlots
Calls == 1..MaxCalls

\* who registered a listener / receives the callback
SlotOwner(k) == <<"slot", k>>
AdapterOwner(a) == <<"adapter", a>>
Owners == {SlotOwner(k) : k \in Slots} \cup {AdapterOwner(a) : a \in Adapters}

\* A script element is <<src, n>>: n = 0 is a tag the page itself carries,
\* n >= 1 is the n-th element document.createElement('script') made for src.
MaxEl == MaxSlots * MaxTrig + MaxCalls + 1
Elements == Urls \X (0..MaxEl)
PageElement(src) == <<src, 0>>

NoError == "null"
NoEntry == [loading |-> FALSE, error |-> "undefined", scriptEl |-> <<NoSrc, 0>>]
ScriptStatus(l, e, el) == [loading |-> l, error |-> e, scriptEl |-> el]

Providers == {"p1", "p2"}
Undefined == "undefined"

VARIABLES
  scripts,         \* the registry: src -> ScriptStatus or NoEntry
  created,         \* src -> number of createElement calls made for src
  document,        \* the script elements that are in the document
  readyState,      \* element -> "none" | "pending" | "loaded" | "failed"
  listeners,       \* element -> owner -> number of (load, error) listener pairs
  slot,            \* hook users: slot -> record of the call, snapshot and callbacks
  eagerConnection, \* adapter -> state of the cached initialization promise
  initError,       \* adapter -> the reason eagerConnection rejected with
  plaidWeb3,       \* adapter -> this.plaidWeb3
  provider,        \* adapter -> this.provider
  subscribed,      \* adapter -> provider -> number of setProvider wirings
  call,            \* connect()/connectEagerly() calls: call -> record
  sdkCalls,        \* adapter -> how often loadScript and Plaid.web3() were called
  updates,         \* every argument actions.update() was called with
  resets,          \* adapter -> number of actions.resetState() calls
  nEvents,         \* provider events emitted so far
  watch,           \* adapter -> outcome of the last watchAsset() call
  deact            \* the last deactivate() call: what it returned and asked of the SDK

loaderVars == <<scripts, created, document, readyState, listeners>>
adapterVars == <<eagerConnection, initError, plaidWeb3, provider, subscribed, call,
                 sdkCalls, updates, resets, nEvents, watch, deact>>
vars == <<scripts, created, document, readyState, listeners, slot, eagerConnection,
          initError, plaidWeb3, provider, subscribed, call, sdkCalls, updates,
          resets, nEvents, watch, deact>>

\* ---------------------------------------------------------- loadScript.ts
\* The loader state threaded through one synchronous run of loadScript.
LoaderState == [scripts |-> scripts, created |-> created, document |-> document,
                readyState |-> readyState, listeners |-> listeners]

\* document.querySelector(`script[src="${src}"]`)
querySelector(doc, src) ==
  LET found == {e \in doc : e[1] = src}
  IN  IF found = {} THEN <<NoSrc, 0>>
      ELSE CHOOSE e \in found : \A f \in found : e[2] <= f[2]

\* checkExisting(src): adopt a tag that is already in the document
checkExisting(L, src) ==
  LET existing == querySelector(L.document, src)
  IN  IF existing # <<NoSrc, 0>>
      THEN [L EXCEPT !.scripts[src] = ScriptStatus(FALSE, NoError, existing)]
      ELSE L

\* the document scanned also for a URL the registry knows
statusLookupRescanning(L, src, checkForExisting) ==
  IF src # NoSrc /\ checkForExisting /\ isBrowser
  THEN checkExisting(L, src)
  ELSE L

\* lines 48-54: the status the snapshot is computed from
statusLookup(L, src, checkForExisting) ==
  IF src # NoSrc /\ L.scripts[src] = NoEntry /\ checkForExisting /\ isBrowser
  THEN checkExisting(L, src)
  ELSE L

\* line 56: status?.loading || Boolean(src)
snapshotLoading(L, src) ==
  (src # NoSrc /\ L.scripts[src] # NoEntry /\ L.scripts[src].loading) \/ src # NoSrc

\* line 57: status?.error || null
snapshotError(L, src) ==
  IF src # NoSrc /\ L.scripts[src] # NoEntry THEN L.scripts[src].error ELSE NoError

\* lines 77-85: create the element and register it
createAndRegister(L, src) ==
  LET el == <<src, L.created[src] + 1>>
  IN  [L EXCEPT !.created[src] = @ + 1,
                !.scripts[src] = ScriptStatus(TRUE, NoError, el)]

\* attaching a caller's listeners in place of the ones already attached
attachAndAppendReplacing(L, el, owner) ==
  [L EXCEPT !.listeners[el] = [o \in Owners |-> IF o = owner THEN 1 ELSE 0],
            !.document = @ \cup {el},
            !.readyState[el] = IF @ = "none" THEN "pending" ELSE @]

\* lines 98-101: addEventListener x2, document.body.appendChild(scriptEl)
attachAndAppend(L, el, owner) ==
  [L EXCEPT !.listeners[el][owner] = @ + 1,
            !.document = @ \cup {el},
            !.readyState[el] = IF @ = "none" THEN "pending" ELSE @]

\* the loader consulting the registry only under checkForExisting
loaderRegistryOnlyWhenChecking(L, src, checkForExisting, error, owner) ==
  IF ~isBrowser \/ src = NoSrc \/ error # NoError
  THEN L
  ELSE LET L1 == IF L.scripts[src] = NoEntry /\ checkForExisting
                 THEN checkExisting(L, src) ELSE L
           L2 == IF L1.scripts[src] # NoEntry /\ checkForExisting
                 THEN L1 ELSE createAndRegister(L1, src)
       IN  attachAndAppend(L2, L2.scripts[src].scriptEl, owner)

\* lines 60-102: the loader closure; error is the snapshot's error
loader(L, src, checkForExisting, error, owner) ==
  IF ~isBrowser \/ src = NoSrc \/ error # NoError
  THEN L
  ELSE LET L1 == IF L.scripts[src] = NoEntry /\ checkForExisting
                 THEN checkExisting(L, src) ELSE L
           L2 == IF L1.scripts[src] # NoEntry THEN L1 ELSE createAndRegister(L1, src)
       IN  attachAndAppend(L2, L2.scripts[src].scriptEl, owner)

\* loadScript running the loader at once whatever loadImmediate says
loadScriptEager(L, src, checkForExisting, loadImmediate, owner) ==
  LET L1 == statusLookup(L, src, checkForExisting)
      loading == snapshotLoading(L1, src)
      error == snapshotError(L1, src)
  IN  [L |-> loader(L1, src, checkForExisting, error, owner),
       loading |-> loading,
       error |-> error,
       load |-> ~loadImmediate]

\* lines 42-114: one call of loadScript; the snapshot is taken before the
\* loader runs, and the trigger is returned only without loadImmediate
loadScript(L, src, checkForExisting, loadImmediate, owner) ==
  LET L1 == statusLookup(L, src, checkForExisting)
      loading == snapshotLoading(L1, src)
      error == snapshotError(L1, src)
  IN  [L |-> IF loadImmediate THEN loader(L1, src, checkForExisting, error, owner) ELSE L1,
       loading |-> loading,
       error |-> error,
       load |-> ~loadImmediate]

\* commit a loader state to the variables
SetLoader(L) ==
  /\ scripts' = L.scripts
  /\ created' = L.created
  /\ document' = L.document
  /\ readyState' = L.readyState
  /\ listeners' = L.listeners

\* ------------------------------------------------- hook users (useScript)
UnusedSlot == [state |-> "unused", src |-> NoSrc, checkForExisting |-> FALSE,
               loadImmediate |-> FALSE, loading |-> FALSE, error |-> NoError,
               load |-> FALSE, trig |-> 0, notes |-> <<>>]

\* what a callback is invoked with: {loading, error}
CallbackArg(l, e) == [loading |-> l, error |-> e]
ErrorEvent == "ErrorEvent"

\* slot k calls loadScript({src, checkForExisting, loadImmediate}, callback)
LoadScriptCall(k, src, checkForExisting, loadImmediate) ==
  /\ slot[k].state = "unused"
  /\ \A j \in Slots : j < k => slot[j].state # "unused"
  /\ LET r == loadScript(LoaderState, src, checkForExisting, loadImmediate, SlotOwner(k))
     IN  /\ SetLoader(r.L)
         /\ slot' = [slot EXCEPT ![k] =
                       [state |-> "called", src |-> src,
                        checkForExisting |-> checkForExisting,
                        loadImmediate |-> loadImmediate,
                        loading |-> r.loading, error |-> r.error,
                        load |-> r.load, trig |-> 0, notes |-> <<>>]]
  /\ UNCHANGED adapterVars

\* slot k invokes the deferred trigger it was handed (useEffect: load && load())
Trigger(k) ==
  /\ slot[k].state = "called"
  /\ slot[k].load
  /\ slot[k].trig < MaxTrig
  /\ SetLoader(loader(LoaderState, slot[k].src, slot[k].checkForExisting,
                      slot[k].error, SlotOwner(k)))
  /\ slot' = [slot EXCEPT ![k].trig = @ + 1]
  /\ UNCHANGED adapterVars

\* n copies of x
RECURSIVE Repeat(_, _)
Repeat(x, n) == IF n <= 0 THEN <<>> ELSE <<x>> \o Repeat(x, n - 1)

HasListener(el) == \E o \in Owners : listeners[el][o] > 0

\* The element fires 'load': every handleLoad attached to it runs (lines 90-93),
\* then the reactions of the initialization promise's callback (lines 121-125).
ElementLoad(el) ==
  /\ el \in document
  /\ readyState[el] = "pending"
  /\ readyState' = [readyState EXCEPT ![el] = "loaded"]
  /\ scripts' = IF HasListener(el) /\ scripts[el[1]] # NoEntry
                THEN [scripts EXCEPT ![el[1]].loading = FALSE]
                ELSE scripts
  /\ slot' = [k \in Slots |->
                [slot[k] EXCEPT !.notes =
                   @ \o Repeat(CallbackArg(FALSE, NoError), listeners[el][SlotOwner(k)])]]
  /\ eagerConnection' = [a \in Adapters |->
        IF listeners[el][AdapterOwner(a)] > 0 /\ eagerConnection[a] = "pendingScript"
        THEN "scriptLoaded" ELSE eagerConnection[a]]
  /\ UNCHANGED <<created, document, listeners, initError, plaidWeb3, provider,
                 subscribed, call, sdkCalls, updates, resets, nEvents, watch, deact>>

\* the error event recorded in the registry entry
ElementErrorRecording(el) ==
  /\ el \in document
  /\ readyState[el] = "pending"
  /\ readyState' = [readyState EXCEPT ![el] = "failed"]
  /\ scripts' = IF HasListener(el) /\ scripts[el[1]] # NoEntry
                THEN [scripts EXCEPT ![el[1]].loading = FALSE, ![el[1]].error = ErrorEvent]
                ELSE scripts
  /\ slot' = [k \in Slots |->
                [slot[k] EXCEPT !.notes =
                   @ \o Repeat(CallbackArg(FALSE, ErrorEvent), listeners[el][SlotOwner(k)])]]
  /\ eagerConnection' = [a \in Adapters |->
        IF listeners[el][AdapterOwner(a)] > 0 /\ eagerConnection[a] = "pendingScript"
        THEN "rejected" ELSE eagerConnection[a]]
  /\ initError' = [a \in Adapters |->
        IF listeners[el][AdapterOwner(a)] > 0 /\ eagerConnection[a] = "pendingScript"
        THEN ErrorEvent ELSE initError[a]]
  /\ UNCHANGED <<created, document, listeners, plaidWeb3, provider,
                 subscribed, call, sdkCalls, updates, resets, nEvents, watch, deact>>

\* The element fires 'error': every handleError attached to it runs (lines 94-96);
\* the registry entry is not touched.
ElementError(el) ==
  /\ el \in document
  /\ readyState[el] = "pending"
  /\ readyState' = [readyState EXCEPT ![el] = "failed"]
  /\ slot' = [k \in Slots |->
                [slot[k] EXCEPT !.notes =
                   @ \o Repeat(CallbackArg(FALSE, ErrorEvent), listeners[el][SlotOwner(k)])]]
  /\ eagerConnection' = [a \in Adapters |->
        IF listeners[el][AdapterOwner(a)] > 0 /\ eagerConnection[a] = "pendingScript"
        THEN "rejected" ELSE eagerConnection[a]]
  /\ initError' = [a \in Adapters |->
        IF listeners[el][AdapterOwner(a)] > 0 /\ eagerConnection[a] = "pendingScript"
        THEN ErrorEvent ELSE initError[a]]
  /\ UNCHANGED <<scripts, created, document, listeners, plaidWeb3, provider,
                 subscribed, call, sdkCalls, updates, resets, nEvents, watch, deact>>

\* ------------------------------------------------------------ parseChainId
\* A chain id as a provider reports it: a JS number or a JS string (a sequence
\* of characters).
NumberValue(n) == [type |-> "number", num |-> n, str |-> <<>>]
StringValue(s) == [type |-> "string", num |-> 0, str |-> s]

\* A JS number that parsing yields: an integer or NaN.
Num(n) == [nan |-> FALSE, val |-> n]
NaN == [nan |-> TRUE, val |-> 0]

digitChars == <<"0", "1", "2", "3", "4", "5", "6", "7", "8", "9",
                "a", "b", "c", "d", "e", "f">>
upperChars == <<"A", "B", "C", "D", "E", "F">>

\* the value of a character as a digit, -1 when it is none
DigitValue(ch) ==
  IF \E i \in DOMAIN digitChars : digitChars[i] = ch
  THEN (CHOOSE i \in DOMAIN digitChars : digitChars[i] = ch) - 1
  ELSE IF \E i \in DOMAIN upperChars : upperChars[i] = ch
       THEN 9 + (CHOOSE i \in DOMAIN upperChars : upperChars[i] = ch)
       ELSE -1

IsDigit(ch, radix) == DigitValue(ch) >= 0 /\ DigitValue(ch) < radix

\* String.prototype.startsWith
startsWith(s, prefix) ==
  Len(s) >= Len(prefix) /\ SubSeq(s, 1, Len(prefix)) = prefix

Drop(s, n) == SubSeq(s, n + 1, Len(s))

RECURSIVE TrimStart(_)
TrimStart(s) == IF s # <<>> /\ Head(s) = " " THEN TrimStart(Tail(s)) ELSE s

\* the longest prefix of s made of digits of the radix, read as a number;
\* seen says whether any digit was read
RECURSIVE ReadDigits(_, _, _, _)
ReadDigits(s, radix, acc, seen) ==
  IF s # <<>> /\ IsDigit(Head(s), radix)
  THEN ReadDigits(Tail(s), radix, acc * radix + DigitValue(Head(s)), TRUE)
  ELSE IF seen THEN Num(acc) ELSE NaN

\* Number.parseInt(string, radix) for radix 10 or 16 (ECMAScript 19.2.5):
\* leading white space, then a sign, then for radix 16 an optional 0x / 0X,
\* then the longest run of digits; NaN when there is none.
parseInt(string, radix) ==
  LET s0 == TrimStart(string)
      negative == s0 # <<>> /\ Head(s0) = "-"
      s1 == IF s0 # <<>> /\ Head(s0) \in {"-", "+"} THEN Tail(s0) ELSE s0
      s2 == IF radix = 16 /\ (startsWith(s1, <<"0", "x">>) \/ startsWith(s1, <<"0", "X">>))
            THEN Drop(s1, 2) ELSE s1
      r == ReadDigits(s2, radix, 0, FALSE)
  IN  IF r.nan THEN NaN ELSE IF negative THEN Num(0 - r.val) ELSE r

\* every string parsed as decimal
parseChainIdDecimalOnly(chainId) ==
  IF chainId.type = "number"
  THEN Num(chainId.num)
  ELSE parseInt(chainId.str, 10)

\* web3-react.ts lines 16-18
parseChainId(chainId) ==
  IF chainId.type = "number"
  THEN Num(chainId.num)
  ELSE parseInt(chainId.str, IF startsWith(chainId.str, <<"0", "x">>) THEN 16 ELSE 10)

\* what providers answer eth_chainId with / emit as chain ids
ChainIdValues ==
  { NumberValue(5),
    StringValue(<<"0", "x", "1">>),
    StringValue(<<"1", "0">>) }

\* what providers answer eth_accounts with / emit as account lists
AccountLists == { <<>>, <<"0xabc">> }

\* fields of an actions.update() argument
ChainField(n) == [present |-> TRUE, nan |-> n.nan, val |-> n.val]
NoChainField == [present |-> FALSE, nan |-> FALSE, val |-> 0]
AccountsField(l) == [present |-> TRUE, list |-> l]
NoAccountsField == [present |-> FALSE, list |-> <<>>]

\* ------------------------------------------------ PlaidWalletOnboard calls
NoChain == NumberValue(0)
IdleCall == [pc |-> "idle", adapter |-> 0, kind |-> "none", error |-> "none",
             provider |-> Undefined,
             accountsReq |-> "none", accounts |-> <<>>,
             chainReq |-> "none", chainId |-> NoChain,
             cancels |-> 0, updates |-> 0,
             updateArg |-> [adapter |-> 0, chainId |-> NoChainField,
                            accounts |-> NoAccountsField]]

\* a request of the SDK or of the provider rejects
Rejected == "rejected"

\* the initialization re-triggered by every call
ReuseInitNever(a) == FALSE

\* a rejected initialization retried by the next call
ReuseInitUnlessRejected(a) == eagerConnection[a] \notin {Undefined, "rejected"}

\* line 113: if (this.eagerConnection) return Promise.resolve()
ReuseInit(a) == eagerConnection[a] # Undefined

\* the catch handler rethrowing without cancelActivation()
catchWithoutCancel(c, error) ==
  [IdleCall EXCEPT !.pc = "failed", !.adapter = call[c].adapter, !.kind = call[c].kind,
                   !.error = error, !.cancels = call[c].cancels,
                   !.updates = call[c].updates]

\* lines 67-70 / 100-103: .catch((error) => { cancelActivation(); throw error });
\* the chain's locals (provider, accounts, chainId) are out of scope afterwards
catch(c, error) ==
  [IdleCall EXCEPT !.pc = "failed", !.adapter = call[c].adapter, !.kind = call[c].kind,
                   !.error = error, !.cancels = call[c].cancels + 1,
                   !.updates = call[c].updates]

\* lines 137-161: this.provider = provider, and the four provider.on(...) wirings
setProvider(a, p) ==
  /\ provider' = [provider EXCEPT ![a] = p]
  /\ subscribed' = [subscribed EXCEPT ![a][p] = @ + 1]

\* lines 59-61 / 92-94: Promise.all([request(eth_accounts), request(eth_chainId)])
issueRequests(r, p) ==
  [r EXCEPT !.pc = "requests", !.provider = p,
            !.accountsReq = "pending", !.chainReq = "pending"]

\* activate() / connectEagerly() up to the first await: startActivation(), then
\* isomorphicInitialize() (lines 112-135), whose promise executor calls
\* loadScript synchronously.
Connect(c, a, kind) ==
  /\ call[c].pc = "idle"
  /\ \A d \in Calls : d < c => call[d].pc # "idle"
  /\ \A b \in Adapters : b < a => eagerConnection[b] # Undefined
  /\ IF ReuseInit(a)
     THEN /\ call' = [call EXCEPT ![c] =
                        [IdleCall EXCEPT !.pc = "resolved", !.adapter = a, !.kind = kind]]
          /\ UNCHANGED <<loaderVars, eagerConnection, sdkCalls>>
     ELSE /\ SetLoader(loadScript(LoaderState, PLAID_LINK_STABLE_URL, TRUE, TRUE,
                                  AdapterOwner(a)).L)
          /\ eagerConnection' = [eagerConnection EXCEPT ![a] = "pendingScript"]
          /\ sdkCalls' = [sdkCalls EXCEPT ![a].loadScript = @ + 1]
          /\ call' = [call EXCEPT ![c] =
                        [IdleCall EXCEPT !.pc = "awaitInit", !.adapter = a, !.kind = kind]]
  /\ UNCHANGED <<slot, initError, plaidWeb3, provider, subscribed, updates, resets,
                 nEvents, watch, deact>>

\* lines 127-129: .then(() => window.Plaid.web3())
InitFactory(a) ==
  /\ eagerConnection[a] = "scriptLoaded"
  /\ eagerConnection' = [eagerConnection EXCEPT ![a] = "pendingFactory"]
  /\ sdkCalls' = [sdkCalls EXCEPT ![a].web3 = @ + 1]
  /\ UNCHANGED <<loaderVars, slot, initError, plaidWeb3, provider, subscribed, call,
                 updates, resets, nEvents, watch, deact>>

\* lines 130-132: the factory settles; on success this.plaidWeb3 is stored
FactorySettle(a, ok) ==
  /\ eagerConnection[a] = "pendingFactory"
  /\ IF ok
     THEN /\ plaidWeb3' = [plaidWeb3 EXCEPT ![a] = "web3"]
          /\ eagerConnection' = [eagerConnection EXCEPT ![a] = "fulfilled"]
          /\ UNCHANGED initError
     ELSE /\ eagerConnection' = [eagerConnection EXCEPT ![a] = "rejected"]
          /\ initError' = [initError EXCEPT ![a] = "FactoryError"]
          /\ UNCHANGED plaidWeb3
  /\ UNCHANGED <<loaderVars, slot, provider, subscribed, call, sdkCalls, updates,
                 resets, nEvents, watch, deact>>

\* the promise isomorphicInitialize() returned to call c has fulfilled
InitSettledFor(c) ==
  \/ call[c].pc = "resolved"
  \/ call[c].pc = "awaitInit" /\ eagerConnection[call[c].adapter] = "fulfilled"

\* lines 37-51 / 77-79: the reaction to isomorphicInitialize(); plaidWeb3 is
\* this.plaidWeb3 as it is now, and a method call on undefined throws TypeError
InitThen(c) ==
  /\ InitSettledFor(c)
  /\ call' = [call EXCEPT ![c] =
       IF plaidWeb3[call[c].adapter] = Undefined
       THEN catch(c, "TypeError")
       ELSE IF call[c].kind = "connect"
            THEN [call[c] EXCEPT !.pc = "onboarding"]
            ELSE [call[c] EXCEPT !.pc = "getProvider"]]
  /\ UNCHANGED <<loaderVars, slot, eagerConnection, initError, plaidWeb3, provider,
                 subscribed, sdkCalls, updates, resets, nEvents, watch, deact>>

\* the shared promise rejected: the call's catch handler runs
InitCatch(c) ==
  /\ call[c].pc = "awaitInit"
  /\ eagerConnection[call[c].adapter] = "rejected"
  /\ call' = [call EXCEPT ![c] = catch(c, initError[call[c].adapter])]
  /\ UNCHANGED <<loaderVars, slot, eagerConnection, initError, plaidWeb3, provider,
                 subscribed, sdkCalls, updates, resets, nEvents, watch, deact>>

\* lines 43-45, 54-61: onSuccess(provider): setProvider, then both requests
OnSuccess(c, p) ==
  /\ call[c].pc = "onboarding"
  /\ setProvider(call[c].adapter, p)
  /\ call' = [call EXCEPT ![c] = issueRequests(call[c], p)]
  /\ UNCHANGED <<loaderVars, slot, eagerConnection, initError, plaidWeb3, sdkCalls,
                 updates, resets, nEvents, watch, deact>>

\* lines 46-48: onExit(error)
OnExit(c) ==
  /\ call[c].pc = "onboarding"
  /\ call' = [call EXCEPT ![c] = catch(c, "OnboardingExit")]
  /\ UNCHANGED <<loaderVars, slot, eagerConnection, initError, plaidWeb3, provider,
                 subscribed, sdkCalls, updates, resets, nEvents, watch, deact>>

\* lines 80-83: getCurrentEthereumProvider(chain) settled with p, with
\* nothing, or rejected
GetProviderSettle(c, p) ==
  /\ call[c].pc = "getProvider"
  /\ call' = [call EXCEPT ![c] =
       IF p = Rejected
       THEN catch(c, "RequestRejected")
       ELSE IF p = Undefined
            THEN catch(c, "No existing connection")
            ELSE [call[c] EXCEPT !.pc = "isActive", !.provider = p]]
  /\ UNCHANGED <<loaderVars, slot, eagerConnection, initError, plaidWeb3, provider,
                 subscribed, sdkCalls, updates, resets, nEvents, watch, deact>>

\* connectEagerly wiring the provider whatever isProviderActive answers
IsActiveSettleUnchecked(c, connected) ==
  /\ call[c].pc = "isActive"
  /\ IF connected # Rejected
     THEN /\ setProvider(call[c].adapter, call[c].provider)
          /\ call' = [call EXCEPT ![c].pc = "wired"]
     ELSE /\ call' = [call EXCEPT ![c] = catch(c, "RequestRejected")]
          /\ UNCHANGED <<provider, subscribed>>
  /\ UNCHANGED <<loaderVars, slot, eagerConnection, initError, plaidWeb3, sdkCalls,
                 updates, resets, nEvents, watch, deact>>

\* lines 83-87: isProviderActive(provider) settled with connected ("true",
\* "false") or rejected
IsActiveSettle(c, connected) ==
  /\ call[c].pc = "isActive"
  /\ IF connected = "true"
     THEN /\ setProvider(call[c].adapter, call[c].provider)
          /\ call' = [call EXCEPT ![c].pc = "wired"]
     ELSE /\ call' = [call EXCEPT ![c] =
                 catch(c, IF connected = Rejected THEN "RequestRejected"
                          ELSE "No existing connection")]
          /\ UNCHANGED <<provider, subscribed>>
  /\ UNCHANGED <<loaderVars, slot, eagerConnection, initError, plaidWeb3, sdkCalls,
                 updates, resets, nEvents, watch, deact>>

\* lines 88-94: const provider = this.provider, then both requests
EagerRequests(c) ==
  /\ call[c].pc = "wired"
  /\ call' = [call EXCEPT ![c] = issueRequests(call[c], provider[call[c].adapter])]
  /\ UNCHANGED <<loaderVars, slot, eagerConnection, initError, plaidWeb3, provider,
                 subscribed, sdkCalls, updates, resets, nEvents, watch, deact>>

\* eth_accounts settles; a rejection rejects the Promise.all at once
AccountsSettle(c, rejects, res) ==
  /\ call[c].pc = "requests"
  /\ call[c].accountsReq = "pending"
  /\ call' = [call EXCEPT ![c] =
       IF rejects
       THEN catch(c, "RequestRejected")
       ELSE [call[c] EXCEPT !.accountsReq = "resolved", !.accounts = res]]
  /\ UNCHANGED <<loaderVars, slot, eagerConnection, initError, plaidWeb3, provider,
                 subscribed, sdkCalls, updates, resets, nEvents, watch, deact>>

\* eth_chainId settles
ChainIdSettle(c, rejects, res) ==
  /\ call[c].pc = "requests"
  /\ call[c].chainReq = "pending"
  /\ call' = [call EXCEPT ![c] =
       IF rejects
       THEN catch(c, "RequestRejected")
       ELSE [call[c] EXCEPT !.chainReq = "resolved", !.chainId = res]]
  /\ UNCHANGED <<loaderVars, slot, eagerConnection, initError, plaidWeb3, provider,
                 subscribed, sdkCalls, updates, resets, nEvents, watch, deact>>

\* lines 62-66 / 95-99: .then(([accounts, chainId]) => ...)
AllThen(c) ==
  /\ call[c].pc = "requests"
  /\ call[c].accountsReq = "resolved"
  /\ call[c].chainReq = "resolved"
  /\ IF Len(call[c].accounts) = 0
     THEN /\ call' = [call EXCEPT ![c] = catch(c, "No accounts returned")]
          /\ UNCHANGED updates
     ELSE LET arg == [adapter |-> call[c].adapter,
                      chainId |-> ChainField(parseChainId(call[c].chainId)),
                      accounts |-> AccountsField(call[c].accounts)]
          IN  /\ updates' = updates \cup {arg}
              /\ call' = [call EXCEPT ![c].pc = "done", ![c].updates = @ + 1,
                                      ![c].updateArg = arg]
  /\ UNCHANGED <<loaderVars, slot, eagerConnection, initError, plaidWeb3, provider,
                 subscribed, sdkCalls, resets, nEvents, watch, deact>>

\* ---------------------------------------------------------- provider events
\* Only an event that some adapter subscribed to runs code of the program.
Subscribers(p) == {a \in Adapters : subscribed[a][p] > 0}

\* lines 140-142 / 149-151: update({ chainId: parseChainId(chainId) })
chainUpdate(a, chainId) ==
  [adapter |-> a, chainId |-> ChainField(parseChainId(chainId)),
   accounts |-> NoAccountsField]

\* the accountsChanged handler without its empty-list case
accountsUpdatesAlways(a, accounts) ==
  {[adapter |-> a, chainId |-> NoChainField, accounts |-> AccountsField(accounts)]}

\* lines 153-160: the accountsChanged handler updates unless the list is empty
accountsUpdates(a, accounts) ==
  IF Len(accounts) = 0 THEN {}
  ELSE {[adapter |-> a, chainId |-> NoChainField, accounts |-> AccountsField(accounts)]}

\* the accountsChanged handler never resetting
accountsResetsNever(accounts) == 0

\* lines 154-156: resetState() for an empty list
accountsResets(accounts) == IF Len(accounts) = 0 THEN 1 ELSE 0

Emit ==
  /\ nEvents < MaxEvents
  /\ nEvents' = nEvents + 1
  /\ UNCHANGED <<loaderVars, slot, eagerConnection, initError, plaidWeb3, provider,
                 subscribed, call, sdkCalls, watch, deact>>

\* provider p emits 'connect' ({chainId}) or 'chainChanged' (chainId)
EmitChain(p, ev, chainId) ==
  /\ Subscribers(p) # {}
  /\ ev \in {"connect", "chainChanged"}
  /\ updates' = updates \cup {chainUpdate(a, chainId) : a \in Subscribers(p)}
  /\ UNCHANGED resets
  /\ Emit

\* provider p emits 'disconnect' (error): resetState(), onError?.(error)
EmitDisconnect(p) ==
  /\ Subscribers(p) # {}
  /\ resets' = [a \in Adapters |-> resets[a] + subscribed[a][p]]
  /\ UNCHANGED updates
  /\ Emit

\* provider p emits 'accountsChanged' (accounts)
EmitAccountsChanged(p, accounts) ==
  /\ Subscribers(p) # {}
  /\ updates' = updates \cup UNION {accountsUpdates(a, accounts) : a \in Subscribers(p)}
  /\ resets' = [a \in Adapters |-> resets[a] + subscribed[a][p] * accountsResets(accounts)]
  /\ Emit

\* ---------------------------------------------------------------- watchAsset
NoWatch == [adapter |-> 0, status |-> "none", provider |-> Undefined]

\* watchAsset without its guard
hasProviderAlways(a) == TRUE

\* line 169: if (!this.provider) throw new Error('No provider')
hasProvider(a) == provider[a] # Undefined

\* lines 163-183: throws 'No provider' without this.provider, else issues
\* wallet_watchAsset to it
WatchAsset(a) ==
  /\ watch.status # "pending"
  /\ watch' = IF hasProvider(a)
              THEN [adapter |-> a, status |-> "pending", provider |-> provider[a]]
              ELSE [adapter |-> a, status |-> "No provider", provider |-> Undefined]
  /\ UNCHANGED <<loaderVars, slot, eagerConnection, initError, plaidWeb3, provider,
                 subscribed, call, sdkCalls, updates, resets, nEvents, deact>>

\* lines 184-187: the request settles with success ("true", "false") or rejects
WatchSettle(success) ==
  /\ watch.status = "pending"
  /\ watch' = [watch EXCEPT !.status =
                 IF success = Rejected THEN "RequestRejected"
                 ELSE IF success = "true" THEN "true" ELSE "Rejected"]
  /\ UNCHANGED <<loaderVars, slot, eagerConnection, initError, plaidWeb3, provider,
                 subscribed, call, sdkCalls, updates, resets, nEvents, deact>>

\* ---------------------------------------------------------------- deactivate
NoDeactivate == [adapter |-> 0, returned |-> "none", sdk |-> 0, provider |-> Undefined]

\* deactivate without its guard
canDisconnectAlways(a) == TRUE

\* line 108: if (!this.provider || !this.plaidWeb3) return Promise.resolve()
canDisconnect(a) == provider[a] # Undefined /\ plaidWeb3[a] # Undefined

\* lines 107-110: returns a resolved promise, or the promise of
\* plaidWeb3.disconnectEthereumProvider(this.provider)
Deactivate(a) ==
  /\ deact' = IF canDisconnect(a)
              THEN [adapter |-> a, returned |-> "disconnectEthereumProvider", sdk |-> 1,
                    provider |-> provider[a]]
              ELSE [adapter |-> a, returned |-> "resolved", sdk |-> 0,
                    provider |-> Undefined]
  /\ UNCHANGED <<loaderVars, slot, eagerConnection, initError, plaidWeb3, provider,
                 subscribed, call, sdkCalls, updates, resets, nEvents, watch>>

\* ------------------------------------------------------------ specification
\* The page may already carry a <script> tag for a URL, in any load state.
Init ==
  /\ scripts = [u \in Urls |-> NoEntry]
  /\ created = [u \in Urls |-> 0]
  /\ \E page \in [Urls -> {"none", "pending", "loaded", "failed"}] :
       readyState = [e \in Elements |-> IF e[2] = 0 THEN page[e[1]] ELSE "none"]
  /\ document = {e \in Elements : readyState[e] # "none"}
  /\ listeners = [e \in Elements |-> [o \in Owners |-> 0]]
  /\ slot = [k \in Slots |-> UnusedSlot]
  /\ eagerConnection = [a \in Adapters |-> Undefined]
  /\ initError = [a \in Adapters |-> "none"]
  /\ plaidWeb3 = [a \in Adapters |-> Undefined]
  /\ provider = [a \in Adapters |-> Undefined]
  /\ subscribed = [a \in Adapters |-> [p \in Providers |-> 0]]
  /\ call = [c \in Calls |-> IdleCall]
  /\ sdkCalls = [a \in Adapters |-> [loadScript |-> 0, web3 |-> 0]]
  /\ updates = {}
  /\ resets = [a \in Adapters |-> 0]
  /\ nEvents = 0
  /\ watch = NoWatch
  /\ deact = NoDeactivate

\* the adapters' page: no tag for the other URL
AdapterInit == Init /\ readyState[PageElement(OtherUrl)] = "none"

HookNext ==
  \/ \E k \in Slots, src \in Urls \cup {NoSrc}, cfe \in BOOLEAN, li \in BOOLEAN :
       LoadScriptCall(k, src, cfe, li)
  \/ \E k \in Slots : Trigger(k)

ScriptEvents ==
  \/ \E el \in Elements : ElementLoad(el)
  \/ \E el \in Elements : ElementError(el)

AdapterNext ==
  \/ \E c \in Calls, a \in Adapters, kind \in {"connect", "eager"} : Connect(c, a, kind)
  \/ \E a \in Adapters : InitFactory(a)
  \/ \E a \in Adapters, ok \in BOOLEAN : FactorySettle(a, ok)
  \/ \E c \in Calls : InitThen(c)
  \/ \E c \in Calls : InitCatch(c)
  \/ \E c \in Calls, p \in Providers : OnSuccess(c, p)
  \/ \E c \in Calls : OnExit(c)
  \/ \E c \in Calls, p \in Providers \cup {Undefined, Rejected} : GetProviderSettle(c, p)
  \/ \E c \in Calls, r \in {"true", "false", Rejected} : IsActiveSettle(c, r)
  \/ \E c \in Calls : EagerRequests(c)
  \/ \E c \in Calls, res \in AccountLists : AccountsSettle(c, FALSE, res)
  \/ \E c \in Calls : AccountsSettle(c, TRUE, <<>>)
  \/ \E c \in Calls, res \in ChainIdValues : ChainIdSettle(c, FALSE, res)
  \/ \E c \in Calls : ChainIdSettle(c, TRUE, NoChain)
  \/ \E c \in Calls : AllThen(c)

ProviderNext ==
  \/ \E p \in Providers, ev \in {"connect", "chainChanged"}, ch \in ChainIdValues :
       EmitChain(p, ev, ch)
  \/ \E p \in Providers : EmitDisconnect(p)
  \/ \E p \in Providers, l \in AccountLists : EmitAccountsChanged(p, l)

WatchNext ==
  \/ \E a \in Adapters : WatchAsset(a)
  \/ \E r \in {"true", "false", Rejected} : WatchSettle(r)

DeactivateNext == \E a \in Adapters : Deactivate(a)

\* the loader and its direct callers
LoaderSpec == Init /\ [][HookNext \/ ScriptEvents]_vars

\* the connector, the script it loads and the providers it is wired to
Next == ScriptEvents \/ AdapterNext \/ ProviderNext
Spec == AdapterInit /\ [][Next]_vars

\* the connector and watchAsset
WatchSpec == AdapterInit /\ [][ScriptEvents \/ AdapterNext \/ WatchNext]_vars

\* the connector and deactivate
DeactivateSpec == AdapterInit /\ [][ScriptEvents \/ AdapterNext \/ DeactivateNext]_vars

\* the shared initialization alone: the calls up to the reaction to
\* isomorphicInitialize(), the script's events and the SDK factory
InitializeNext ==
  \/ \E c \in Calls, a \in Adapters, kind \in {"connect", "eager"} : Connect(c, a, kind)
  \/ \E a \in Adapters : InitFactory(a)
  \/ \E a \in Adapters, ok \in BOOLEAN : FactorySettle(a, ok)
  \/ \E c \in Calls : InitThen(c)
  \/ \E c \in Calls : InitCatch(c)

\* A script element that is loading eventually fires load or error, the event
\* loop eventually runs a promise reaction that is due, and the SDK factory
\* eventually settles.
InitializeFairness ==
  /\ WF_vars(ScriptEvents)
  /\ \A a \in Adapters : WF_vars(InitFactory(a))
  /\ \A a \in Adapters : WF_vars(\E ok \in BOOLEAN : FactorySettle(a, ok))
  /\ \A c \in Calls : WF_vars(InitThen(c) \/ InitCatch(c))

InitializeSpec ==
  AdapterInit /\ [][ScriptEvents \/ InitializeNext]_vars /\ InitializeFairness

\* ===================================================================== claims
ElementsOf(src) == {e \in document : e[1] = src}
Started(c) == call[c].pc # "idle"
ListenersOf(o) == {e \in Elements : listeners[e][o] > 0}

\* a step that creates an element starts with no registry entry for the URL
\* and ends with the entry registered for the new element, which is inserted
C1_CreatedOnlyUnregistered ==
  \A u \in Urls :
    created'[u] # created[u] =>
      /\ created'[u] = created[u] + 1
      /\ scripts[u] = NoEntry
      /\ scripts'[u] = ScriptStatus(TRUE, NoError, <<u, created'[u]>>)
      /\ <<u, created'[u]>> \in document'

\* C1: for every URL the loader creates at most one script element, whatever
\* the calls, triggers and events; an element is created only in a step that
\* starts with no registry entry for the URL and ends with the entry
\* registered for the new element.
C1_AtMostOneElementPerUrl ==
  /\ [](\A u \in Urls : created[u] <= 1
                        /\ Cardinality({e \in ElementsOf(u) : e[2] # 0}) = created[u])
  /\ [][C1_CreatedOnlyUnregistered]_vars

\* C1 witness: three loader runs of two callers share the one created element,
\* whose load event was delivered.
C1_Witness ==
  \E u \in Urls :
    /\ created[u] = 1
    /\ readyState[<<u, 1>>] = "loaded"
    /\ \E j, k \in Slots :
         /\ j # k
         /\ listeners[<<u, 1>>][SlotOwner(j)] >= 2
         /\ listeners[<<u, 1>>][SlotOwner(k)] >= 1
         /\ slot[j].checkForExisting # slot[k].checkForExisting

\* C2: a call made after the initialization promise exists awaits that promise:
\* it never reaches for an SDK namespace method while the namespace is not
\* stored (the TypeError), and it fails with the initialization's failure when
\* the initialization rejected.
C2_LaterCallsAwaitInit ==
  \A c \in Calls :
    Started(c) =>
      /\ call[c].error # "TypeError"
      /\ (call[c].pc = "failed" /\ eagerConnection[call[c].adapter] = "rejected")
           => call[c].error = initError[call[c].adapter]

\* C3: however many connect()/connectEagerly() calls an adapter gets, it calls
\* loadScript at most once and the SDK factory at most once, it attaches to and
\* appends one script element once, and the document holds exactly one
\* onboarding script element, of which the loader created at most one.
C3_InitTriggeredOnce ==
  /\ created[PLAID_LINK_STABLE_URL] <= 1
  /\ \A a \in Adapters :
       /\ sdkCalls[a].loadScript <= 1
       /\ sdkCalls[a].web3 <= 1
       /\ \A e \in Elements : listeners[e][AdapterOwner(a)] <= 1
       /\ eagerConnection[a] # Undefined =>
            /\ sdkCalls[a].loadScript = 1
            /\ Cardinality(ListenersOf(AdapterOwner(a))) = 1
            /\ Cardinality(ElementsOf(PLAID_LINK_STABLE_URL)) = 1

\* C3 witness: two calls on one adapter, both started before the script loaded.
C3_Witness ==
  /\ Started(1) /\ Started(2)
  /\ call[1].adapter = call[2].adapter
  /\ eagerConnection[call[1].adapter] = "pendingScript"
  /\ sdkCalls[call[1].adapter].loadScript = 1

\* C4: a call that failed, at whatever stage, has invoked its cancellation
\* handle exactly once and has not called update(); no call cancels twice.
C4_FailureCancelsOnce ==
  \A c \in Calls :
    /\ call[c].cancels <= 1
    /\ call[c].pc = "failed" => call[c].cancels = 1 /\ call[c].updates = 0
    /\ call[c].cancels = 1 => call[c].pc = "failed"

\* C4 witness: one call failed on zero accounts, another on a rejected
\* initialization.
C4_Witness ==
  \E c, d \in Calls :
    /\ call[c].pc = "failed" /\ call[c].error = "No accounts returned"
    /\ call[d].pc = "failed" /\ call[d].error = "FactoryError"

\* C5: within one call eth_chainId is issued only after eth_accounts has been
\* answered: no call has an eth_chainId request issued while its eth_accounts
\* request is not resolved.
C5_AccountsBeforeChainId ==
  \A c \in Calls : call[c].chainReq # "none" => call[c].accountsReq = "resolved"

\* slot k makes its loadScript call for src in this step
CallsLoadScript(k, src) ==
  slot[k].state = "unused" /\ slot'[k].state = "called" /\ slot'[k].src = src

\* an earlier call with checkForExisting=false started the load of src
EarlierLoadStarted(k, src) ==
  \E j \in Slots :
    /\ j # k
    /\ slot[j].state = "called" /\ slot[j].src = src /\ ~slot[j].checkForExisting
    /\ scripts[src] # NoEntry
    /\ scripts[src].scriptEl[2] # 0
    /\ listeners[scripts[src].scriptEl][SlotOwner(j)] > 0

\* C6: a loadScript call for a URL whose load an earlier call
\* (checkForExisting=false) started returns a snapshot with loading=true while
\* that load is in flight and loading=false once its load event was delivered.
C6_SnapshotReflectsFirstLoad ==
  [][\A k \in Slots, u \in Urls :
       (CallsLoadScript(k, u) /\ EarlierLoadStarted(k, u)) =>
         /\ readyState[scripts[u].scriptEl] = "pending" => slot'[k].loading
         /\ readyState[scripts[u].scriptEl] = "loaded" => ~slot'[k].loading]_vars

\* C7: a call with checkForExisting=true for a URL the registry does not know,
\* while the document holds a script element with that URL, adopts the element
\* (entry {loading:false, error:null} pointing at it), returns the snapshot
\* {loading:false, error:null} and creates no element, with either loadImmediate.
C7_AdoptsExistingElement ==
  [][\A k \in Slots, u \in Urls :
       (/\ CallsLoadScript(k, u)
        /\ slot'[k].checkForExisting
        /\ scripts[u] = NoEntry
        /\ ElementsOf(u) # {}) =>
         /\ scripts'[u] = ScriptStatus(FALSE, NoError, querySelector(document, u))
         /\ slot'[k].loading = FALSE
         /\ slot'[k].error = NoError
         /\ created' = created
         /\ document' = document]_vars

\* the chain id the claim expects update() to carry for the answer C
C8_Expected(C) ==
  IF C.type = "number" THEN Num(C.num)
  ELSE IF Len(C.str) >= 2 /\ C.str[1] = "0" /\ C.str[2] = "x"
       THEN parseInt(C.str, 16)
       ELSE parseInt(C.str, 10)

\* C8: a connect() that succeeded, with eth_accounts answering the non-empty
\* list A and eth_chainId answering C, called update() exactly once, with
\* {chainId: parse(C), accounts: A} (a number unchanged, "0x1" as 1, "10" as 10),
\* and did not invoke its cancellation handle.
C8_ConnectUpdatesOnce ==
  /\ C8_Expected(StringValue(<<"0", "x", "1">>)) = Num(1)
  /\ C8_Expected(StringValue(<<"1", "0">>)) = Num(10)
  /\ C8_Expected(NumberValue(5)) = Num(5)
  /\ \A c \in Calls :
       (call[c].kind = "connect" /\ call[c].pc = "done") =>
         /\ call[c].accounts # <<>>
         /\ call[c].updates = 1
         /\ call[c].updateArg = [adapter |-> call[c].adapter,
                                 chainId |-> ChainField(C8_Expected(call[c].chainId)),
                                 accounts |-> AccountsField(call[c].accounts)]
         /\ call[c].updateArg \in updates
         /\ call[c].cancels = 0
  /\ \A c \in Calls :
       (/\ call[c].kind = "connect" /\ call[c].pc = "requests"
        /\ call[c].accountsReq = "resolved" /\ call[c].chainReq = "resolved"
        /\ call[c].accounts # <<>>) => ENABLED AllThen(c)

\* C8 witness: a connect() done with accounts ["0xabc"] and chain id "0x1".
C8_Witness ==
  \E c \in Calls :
    /\ call[c].kind = "connect" /\ call[c].pc = "done"
    /\ call[c].accounts = <<"0xabc">>
    /\ call[c].chainId = StringValue(<<"0", "x", "1">>)
    /\ call[c].updateArg.chainId = ChainField(Num(1))

\* a call whose two requests were answered, eth_accounts with an empty list
AnsweredNoAccounts(c) ==
  /\ call[c].pc = "requests"
  /\ call[c].accountsReq = "resolved" /\ call[c].chainReq = "resolved"
  /\ call[c].accounts = <<>>

\* C9: update() is never called with an empty accounts list; a call whose
\* eth_accounts answered an empty list fails with the no-accounts error, calls
\* no update() and cancels its activation.
C9_NoUpdateWithoutAccounts ==
  /\ [](\A u \in updates : u.accounts.present => u.accounts.list # <<>>)
  /\ [](\A c \in Calls : call[c].error = "No accounts returned" =>
          call[c].pc = "failed" /\ call[c].updates = 0 /\ call[c].cancels = 1)
  /\ [][\A c \in Calls :
          (AnsweredNoAccounts(c) /\ call'[c] # call[c]) =>
            /\ call'[c].pc = "failed"
            /\ call'[c].error = "No accounts returned"
            /\ updates' = updates]_vars

\* C9 witness: a call failed on zero accounts, and an event of the provider it
\* wired reset the state; update() was never called.
C9_Witness ==
  \E c \in Calls :
    /\ call[c].error = "No accounts returned"
    /\ resets[call[c].adapter] > 0
    /\ updates = {}

\* a watchAsset() call of adapter a is made in this step
CallsWatchAsset(a) ==
  watch.status # "pending" /\ watch' # watch /\ watch'.adapter = a

\* adapter a has stored and wired a provider
Wired(a) == \E p \in Providers : subscribed[a][p] > 0

\* C10 (amended): while no call of the adapter has stored a provider (no
\* connect() got one from onboarding, no connectEagerly() found an active one),
\* watchAsset fails with the no-provider error and issues no request; once a
\* provider is stored, also by a call that failed afterwards, watchAsset issues
\* wallet_watchAsset to the stored provider.
C10_WatchAssetNeedsProvider ==
  [][\A a \in Adapters :
       CallsWatchAsset(a) =>
         IF Wired(a)
         THEN /\ watch'.status = "pending"
              /\ watch'.provider = provider[a]
              /\ subscribed[a][watch'.provider] > 0
         ELSE watch' = [adapter |-> a, status |-> "No provider",
                        provider |-> Undefined]]_vars

\* C10 witness: watchAsset failed with the no-provider error on an adapter
\* whose call had failed before any provider was stored.
C10_Witness ==
  \E c \in Calls :
    /\ call[c].pc = "failed"
    /\ ~Wired(call[c].adapter)
    /\ watch = [adapter |-> call[c].adapter, status |-> "No provider",
                provider |-> Undefined]

\* C10 (as claimed): while no connect()/connectEagerly() of an adapter has
\* succeeded, its watchAsset fails with the no-provider error and issues no
\* request.
C10_WatchAssetNeedsSuccess ==
  [][\A a \in Adapters :
       (/\ CallsWatchAsset(a)
        /\ \A c \in Calls : call[c].adapter = a => call[c].pc # "done") =>
         watch' = [adapter |-> a, status |-> "No provider", provider |-> Undefined]]_vars

\* the SDK tells call c that there is no connection to resume: no current
\* provider for the chain, or isProviderActive answering false
NoConnectionAnswer(c) ==
  GetProviderSettle(c, Undefined) \/ IsActiveSettle(c, "false")

\* C11: a connectEagerly() call never opens the onboarding UI, and the step in
\* which the SDK returns no current provider or isProviderActive reports false
\* fails the call with the no-existing-connection error (cancelling it once)
\* without storing a provider, subscribing to provider events or issuing
\* eth_accounts / eth_chainId; only such a step gives that error.
C11_EagerNeverOnboards ==
  /\ [](\A c \in Calls : call[c].kind = "eager" =>
          /\ call[c].pc # "onboarding"
          /\ call[c].error # "OnboardingExit")
  /\ [][\A c \in Calls :
          /\ NoConnectionAnswer(c) =>
               /\ call[c].kind = "eager"
               /\ call'[c].pc = "failed"
               /\ call'[c].error = "No existing connection"
               /\ call'[c].cancels = 1
               /\ provider' = provider
               /\ subscribed' = subscribed
               /\ call[c].accountsReq = "none" /\ call'[c].accountsReq = "none"
               /\ call[c].chainReq = "none" /\ call'[c].chainReq = "none"
               /\ updates' = updates
          /\ (call'[c].error = "No existing connection" /\ call[c].error = "none")
               => NoConnectionAnswer(c)]_vars

\* C11 witness: two connectEagerly() calls on one adapter failed with the
\* no-existing-connection error, and the adapter has no provider and no wiring.
C11_Witness ==
  /\ \A c \in Calls :
       /\ call[c].kind = "eager" /\ call[c].adapter = 1
       /\ call[c].pc = "failed" /\ call[c].error = "No existing connection"
  /\ provider[1] = Undefined
  /\ \A p \in Providers : subscribed[1][p] = 0

\* an accountsChanged handler of adapter a runs for the list l
AccountsChangedFor(a, l) ==
  \E p \in Providers : EmitAccountsChanged(p, l) /\ a \in Subscribers(p)

\* C12: every accountsChanged event of a wired provider with an empty list
\* calls resetState() on each adapter wired to it and adds no update(); with a
\* non-empty list L it calls update({accounts: L}), without chainId, for each
\* such adapter, nothing else is updated, and resetState() is not called.
C12_AccountsChangedHandled ==
  [][\A a \in Adapters, l \in AccountLists :
       AccountsChangedFor(a, l) =>
         IF l = <<>>
         THEN /\ resets'[a] > resets[a]
              /\ updates' = updates
         ELSE /\ [adapter |-> a, chainId |-> NoChainField,
                  accounts |-> AccountsField(l)] \in updates'
              /\ \A u \in updates' \ updates :
                   ~u.chainId.present /\ u.accounts = AccountsField(l)
              /\ resets' = resets]_vars

\* C12 witness: an adapter got update({accounts: ["0xabc"]}) from an event
\* (no chainId) and no resetState().
C12_Witness ==
  \E a \in Adapters :
    /\ [adapter |-> a, chainId |-> NoChainField,
        accounts |-> AccountsField(<<"0xabc">>)] \in updates
    /\ resets[a] = 0
    /\ nEvents = 1


\* slot k invokes its deferred trigger in this step
InvokesTrigger(k) == slot'[k].trig = slot[k].trig + 1

\* the error event of the element registered for src was delivered to a caller
LoadFailed(src) ==
  /\ scripts[src] # NoEntry
  /\ readyState[scripts[src].scriptEl] = "failed"
  /\ \E j \in Slots :
       /\ slot[j].src = src
       /\ \E i \in DOMAIN slot[j].notes : slot[j].notes[i].error = ErrorEvent

\* C13: a deferred trigger invoked for a URL after the error event of its load
\* was delivered is a no-op: no callback is invoked, no element is created,
\* and the registry and the document (its elements and what is attached to
\* them) are left unchanged.
C13_TriggerAfterFailureNoOp ==
  [][\A k \in Slots :
       (InvokesTrigger(k) /\ slot[k].src # NoSrc /\ LoadFailed(slot[k].src)) =>
         /\ \A j \in Slots : slot'[j].notes = slot[j].notes
         /\ created' = created
         /\ scripts' = scripts
         /\ document' = document
         /\ readyState' = readyState
         /\ listeners' = listeners]_vars

\* slot k has been handed a trigger and has not invoked it
TriggerNotInvoked(k) ==
  slot[k].state = "called" /\ ~slot[k].loadImmediate /\ slot[k].trig = 0

\* C14: loadScript returns a trigger exactly when loadImmediate is not
\* requested. A call with loadImmediate=false creates no element, attaches no
\* listener, inserts nothing and invokes no callback, and that stays so for the
\* caller until it invokes the trigger; a call with loadImmediate=true for a
\* URL has run the loader before it returns (the caller's listeners are on the
\* registered element, which is in the document) and gets no trigger.
C14_TriggerIffDeferred ==
  /\ [](\A k \in Slots :
          /\ slot[k].state = "called" => (slot[k].load <=> ~slot[k].loadImmediate)
          /\ slot[k].loadImmediate => slot[k].trig = 0
          /\ TriggerNotInvoked(k) =>
               ListenersOf(SlotOwner(k)) = {} /\ slot[k].notes = <<>>)
  /\ [][\A k \in Slots, u \in Urls \cup {NoSrc} :
          CallsLoadScript(k, u) =>
            IF slot'[k].loadImmediate
            THEN u # NoSrc =>
                   /\ scripts'[u] # NoEntry
                   /\ scripts'[u].scriptEl \in document'
                   /\ listeners'[scripts'[u].scriptEl][SlotOwner(k)] = 1
            ELSE /\ created' = created
                 /\ listeners' = listeners
                 /\ document' = document
                 /\ readyState' = readyState
                 /\ \A j \in Slots : slot'[j].notes = <<>> \/ slot'[j].notes = slot[j].notes]_vars

\* C14 witness: one caller holds a trigger it has not invoked and has nothing
\* attached, while a loadImmediate caller of the same URL created the element
\* and was notified of its load.
C14_Witness ==
  \E j, k \in Slots, u \in Urls :
    /\ TriggerNotInvoked(j) /\ slot[j].src = u
    /\ slot[k].loadImmediate /\ slot[k].src = u /\ ~slot[k].load
    /\ created[u] = 1
    /\ slot[k].notes = <<CallbackArg(FALSE, NoError)>>


\* a deactivate() call of adapter a is made in this step
CallsDeactivate(a) == deact' # deact /\ deact'.adapter = a

\* C15: deactivate() returns a resolved promise without calling the SDK when
\* the adapter has no provider or no SDK namespace; otherwise it calls
\* disconnectEthereumProvider once, with the adapter's current provider. Either
\* way the step leaves the provider reference, the SDK namespace and the
\* initialization promise as they are and calls neither update() nor
\* resetState().
C15_DeactivateFrame ==
  [][\A a \in Adapters :
       CallsDeactivate(a) =>
         /\ IF provider[a] = Undefined \/ plaidWeb3[a] = Undefined
            THEN deact' = [adapter |-> a, returned |-> "resolved", sdk |-> 0,
                           provider |-> Undefined]
            ELSE deact' = [adapter |-> a, returned |-> "disconnectEthereumProvider",
                           sdk |-> 1, provider |-> provider[a]]
         /\ provider' = provider
         /\ subscribed' = subscribed
         /\ plaidWeb3' = plaidWeb3
         /\ eagerConnection' = eagerConnection
         /\ initError' = initError
         /\ updates' = updates
         /\ resets' = resets
         /\ call' = call]_vars

\* C15 witness: deactivate() of an adapter that had replaced its provider asked
\* the SDK to disconnect the current one, and the adapter still holds it.
C15_Witness ==
  /\ deact = [adapter |-> 1, returned |-> "disconnectEthereumProvider", sdk |-> 1,
              provider |-> "p2"]
  /\ provider[1] = "p2"
  /\ subscribed[1]["p1"] = 1
  /\ plaidWeb3[1] = "web3"

\* C16: with every loading script element eventually firing load or error and
\* the SDK factory eventually settling, the initialization an adapter started
\* eventually resolves or rejects, also when the script had finished loading
\* before the adapter's first connect.
C16_InitEventuallySettles ==
  \A a \in Adapters :
    (eagerConnection[a] # Undefined) ~> (eagerConnection[a] \in {"fulfilled", "rejected"})

\* how often the loader has run for slot k
LoaderRuns(k) ==
  IF slot[k].state # "called" \/ slot[k].src = NoSrc THEN 0
  ELSE IF slot[k].loadImmediate THEN 1 ELSE slot[k].trig

\* el fires load or error in this step
Fires(el) == readyState[el] = "pending" /\ readyState'[el] \in {"loaded", "failed"}

\* C17: all loader runs for a URL attach their listeners to the one element
\* registered for it, one pair per run and none replacing another's; when that
\* element fires load (or error), every caller is called back once for each of
\* its runs made so far, with {loading:false, error:null} (or {loading:false,
\* error}), and nobody is called back before.
C17_EveryCallerNotified ==
  /\ [](\A k \in Slots :
          LoaderRuns(k) > 0 =>
            /\ scripts[slot[k].src] # NoEntry
            /\ ListenersOf(SlotOwner(k)) = {scripts[slot[k].src].scriptEl}
            /\ listeners[scripts[slot[k].src].scriptEl][SlotOwner(k)] = LoaderRuns(k)
            /\ readyState[scripts[slot[k].src].scriptEl] = "pending"
                 => slot[k].notes = <<>>)
  /\ [][\A el \in Elements :
          Fires(el) =>
            \A k \in Slots :
              slot'[k].notes =
                IF LoaderRuns(k) > 0 /\ scripts[slot[k].src].scriptEl = el
                THEN Repeat(CallbackArg(FALSE, IF readyState'[el] = "loaded"
                                               THEN NoError ELSE ErrorEvent),
                            LoaderRuns(k))
                ELSE slot[k].notes]_vars

\* C17 witness: two callers ran their triggers for one URL before its element
\* fired; the element was created once, failed, and each caller was called
\* back once with the error.
C17_Witness ==
  \E u \in Urls :
    /\ created[u] = 1
    /\ readyState[<<u, 1>>] = "failed"
    /\ \A k \in Slots :
         /\ slot[k].src = u /\ slot[k].trig = 1
         /\ listeners[<<u, 1>>][SlotOwner(k)] = 1
         /\ slot[k].notes = <<CallbackArg(FALSE, ErrorEvent)>>

\* call c is made on adapter a in this step
CallMade(c, a) == call[c].pc = "idle" /\ call'[c].pc # "idle" /\ call'[c].adapter = a

\* C18: once an adapter's initialization has rejected it stays rejected, the
\* adapter calls neither loadScript nor the SDK factory again, and a call
\* made on it afterwards touches neither the loader nor the document, can take
\* only one step, the one that fails it and cancels its activation once, and
\* that step is enabled.
C18_RejectedInitStaysFailed ==
  /\ [](\A a \in Adapters : eagerConnection[a] = "rejected" =>
          /\ plaidWeb3[a] = Undefined
          /\ sdkCalls[a].loadScript = 1 /\ sdkCalls[a].web3 <= 1
          /\ \A c \in Calls :
               (call[c].adapter = a /\ Started(c)) =>
                 /\ call[c].pc \in {"awaitInit", "resolved", "failed"}
                 /\ call[c].pc = "resolved" => ENABLED InitThen(c)
                 /\ call[c].pc = "failed" => call[c].cancels = 1)
  /\ [][\A a \in Adapters : eagerConnection[a] = "rejected" =>
          /\ eagerConnection'[a] = "rejected"
          /\ sdkCalls'[a] = sdkCalls[a]
          /\ \A c \in Calls :
               /\ CallMade(c, a) =>
                    /\ call'[c].pc = "resolved"
                    /\ scripts' = scripts /\ created' = created
                    /\ document' = document /\ listeners' = listeners
               /\ (call[c].adapter = a /\ call[c].pc = "resolved" /\ call'[c] # call[c]) =>
                    /\ call'[c].pc = "failed"
                    /\ call'[c].cancels = 1
                    /\ call'[c].updates = 0]_vars

\* C18 witness: the script failed to load, the call that started the
\* initialization failed with that error, and another call on the adapter
\* failed and cancelled with loadScript called once and the factory never.
C18_Witness ==
  /\ eagerConnection[1] = "rejected" /\ initError[1] = ErrorEvent
  /\ call[1].adapter = 1 /\ call[1].pc = "failed" /\ call[1].error = ErrorEvent
  /\ call[2].adapter = 1 /\ call[2].pc = "failed" /\ call[2].cancels = 1
  /\ call[2].kind = "eager"
  /\ sdkCalls[1] = [loadScript |-> 1, web3 |-> 0]

\* the callbacks the listeners on el make when it fires with error e
NotesAfter(el, e) ==
  [k \in Slots |->
     slot[k].notes \o Repeat(CallbackArg(FALSE, e), listeners[el][SlotOwner(k)])]

\* C19: the error event of an element calls back every attached caller with
\* {loading:false, error} and leaves the registry as it is (the entry of a
\* created element keeps loading=true, and no entry ever holds an error); the
\* load event sets the entry's loading to false, changes nothing else in the
\* registry and calls back with {loading:false, error:null}. A loadScript
\* call for a URL whose load failed returns normally with the snapshot
\* loading=true, error=null.
C19_EventEffects ==
  /\ [](\A u \in Urls :
          /\ scripts[u] # NoEntry => scripts[u].error = NoError
          /\ (created[u] = 1 /\ readyState[<<u, 1>>] = "failed")
               => scripts[u] = ScriptStatus(TRUE, NoError, <<u, 1>>))
  /\ [][\A el \in Elements :
          (Fires(el) /\ HasListener(el)) =>
            IF readyState'[el] = "failed"
            THEN /\ scripts' = scripts
                 /\ slot' = [k \in Slots |->
                              [slot[k] EXCEPT !.notes = NotesAfter(el, ErrorEvent)[k]]]
            ELSE /\ scripts' = [scripts EXCEPT ![el[1]].loading = FALSE]
                 /\ slot' = [k \in Slots |->
                              [slot[k] EXCEPT !.notes = NotesAfter(el, NoError)[k]]]]_vars
  /\ [][\A k \in Slots, u \in Urls :
          (CallsLoadScript(k, u) /\ LoadFailed(u)) =>
            /\ slot'[k].loading
            /\ slot'[k].error = NoError
            /\ scripts' = scripts]_vars

\* C19 witness: the created element of a URL failed, its caller was called
\* back with the error, the entry still says loading=true without error, and
\* another caller holds the snapshot {loading:true, error:null}.
C19_Witness ==
  \E u \in Urls :
    /\ scripts[u] = ScriptStatus(TRUE, NoError, <<u, 1>>)
    /\ readyState[<<u, 1>>] = "failed"
    /\ slot[1].src = u /\ slot[1].notes = <<CallbackArg(FALSE, ErrorEvent)>>
    /\ slot[2].src = u /\ slot[2].state = "called" /\ LoaderRuns(2) = 0
    /\ slot[2].loading /\ slot[2].error = NoError

\* C20: the registry only grows and its entries are stable: an entry is never
\* removed, its script element is never replaced, and its loading flag never
\* goes from false back to true; a call with no URL, and the trigger it
\* returns, add no entry and change nothing.
C20_RegistryStable ==
  /\ [][\A u \in Urls :
          scripts[u] # NoEntry =>
            /\ scripts'[u] # NoEntry
            /\ scripts'[u].scriptEl = scripts[u].scriptEl
            /\ ~scripts[u].loading => ~scripts'[u].loading]_vars
  /\ [][\A k \in Slots :
          (CallsLoadScript(k, NoSrc) \/ (InvokesTrigger(k) /\ slot[k].src = NoSrc)) =>
            /\ scripts' = scripts
            /\ created' = created
            /\ document' = document
            /\ listeners' = listeners]_vars

\* C20 witness: the entry of a created element that has loaded is kept, with
\* its element, although the page carries its own tag for the URL and a caller
\* that checks for existing tags has run the loader.
C20_Witness ==
  \E u \in Urls :
    /\ scripts[u] = ScriptStatus(FALSE, NoError, <<u, 1>>)
    /\ PageElement(u) \in document
    /\ \E k \in Slots : slot[k].src = u /\ slot[k].checkForExisting /\ LoaderRuns(k) = 1


====
